---- MODULE Spec2Model ----
(***************************************************************************)
(* A model of openconnect_gp_okta.py: main() as one sequential process     *)
(* (the parent), the identity provider and the gateway as the environment  *)
(* that answers each HTTP request, the VPN client as a concurrent child    *)
(* process, and the operating environment that may send SIGTERM to the     *)
(* parent at any time.                                                     *)
(*                                                                         *)
(* Strings that are concatenated or encoded are sequences of code points;  *)
(* tags (statuses, factor types, event kinds) are TLA+ strings.            *)
(* Library behaviour is that of CPython 3.9 and later on Linux:            *)
(*   - a signal that arrives while unblocked and handled by a Python       *)
(*     handler is noted by the interpreter (tripped) and the handler runs  *)
(*     before the next statement of the main thread; a blocking call that  *)
(*     is interrupted runs the handler and resumes (PEP 475);              *)
(*   - Popen.send_signal polls the child first (and so reaps a child that  *)
(*     has exited) and sends nothing once returncode is known;             *)
(*   - Popen.stdin is a buffered writer: write() buffers, close() flushes  *)
(*     and raises BrokenPipeError when the read end is gone.               *)
(***************************************************************************)
EXTENDS Integers, Sequences, FiniteSets, TLC

(* ------------------------------ bounds --------------------------------- *)

\* The longest list of factors the identity provider enumerates.
MaxFactors == 3
\* The most MFA_CHALLENGE/WAITING answers the identity provider gives.
MaxPolls == 2
\* The most SIGTERMs the operating environment sends to the parent.
MaxSigterm == 2
\* The most children a form element of a document has.
MaxInputs == 2

(* ------------------------------ strings -------------------------------- *)

S_openconnect == <<111, 112, 101, 110, 99, 111, 110, 110, 101, 99, 116>>
S_sudo == <<115, 117, 100, 111>>
S_protocol == <<45, 45, 112, 114, 111, 116, 111, 99, 111, 108, 61, 103, 112>>
S_user == <<45, 45, 117, 115, 101, 114, 61>>
S_usergroup == <<45, 45, 117, 115, 101, 114, 103, 114, 111, 117, 112, 61, 103, 97, 116, 101, 119, 97, 121, 58, 112, 114, 101, 108, 111, 103, 105, 110, 45, 99, 111, 111, 107, 105, 101>>
S_passwd == <<45, 45, 112, 97, 115, 115, 119, 100, 45, 111, 110, 45, 115, 116, 100, 105, 110>>
\* The gateway argument of the command line ("gw").
S_gw == <<103, 119>>
\* Header values the gateway may answer with: "alice", "rene'" (e acute),
\* "cookie123", "cle'" (e acute).
S_alice == <<97, 108, 105, 99, 101>>
S_rene == <<114, 101, 110, 233>>
S_cookie123 == <<99, 111, 111, 107, 105, 101, 49, 50, 51>>
S_cle == <<99, 108, 233>>

Usernames == {S_alice, S_rene}
Cookies == {S_cookie123, S_cle}

\* One code point as UTF-8 (code points below 2048 suffice for the values above).
Utf8Char(c) ==
    IF c < 128 THEN <<c>>
    ELSE <<192 + (c \div 64), 128 + (c % 64)>>

RECURSIVE encode(_)
\* str.encode(): the UTF-8 bytes of a string.
encode(s) ==
    IF s = <<>> THEN <<>>
    ELSE Utf8Char(Head(s)) \o encode(Tail(s))

(* --------------------------- protocol values --------------------------- *)

FactorTypes == {"token:software:totp", "push", "sms", "token:hardware", "question"}
StateTokens == {1, 2}
SessionTokens == {"T", "U"}
\* Exit codes the VPN client may exit with.
ExitCodes == {0, 2}
\* The signal number of SIGTERM: Popen.returncode is -SIGTERM for a child it killed.
SIGTERM == 15

\* The names and values of the inputs of a form, and the actions of a form.
FormFields == {"SAMLRequest", "SAMLResponse"}
FormValues == {"abc", "xyz"}
FormActions == {"/sso", "/acs"}

\* A response with no JSON body of interest yet.
NoResponse ==
    [status |-> "", stateToken |-> 0, factorResult |-> "", sessionToken |-> "",
     factors |-> <<>>]

NoFactor == [factorType |-> "", href |-> 0]
NoRequest == [url |-> 0, stateToken |-> 0, passCode |-> ""]

(* ------------------------------ documents ------------------------------ *)

\* An element of a parsed document: its tag, its attributes (a mapping from
\* the names of those present) and its children in document order.
Element(tag, attrib, children) == [tag |-> tag, attrib |-> attrib, children |-> children]

\* find() found nothing: None.
None == Element("", <<>>, <<>>)

\* The input elements: with name and value, or with a value alone (a button).
Inputs ==
    {Element("input", [name |-> n, value |-> v], <<>>) : n \in FormFields, v \in FormValues}
    \cup {Element("input", [value |-> "Go"], <<>>)}

Div(children) == Element("div", <<>>, children)

\* What a form may contain: inputs as its children, and inputs one level
\* deeper, inside a div.
FormContents ==
    UNION {[1..n -> Inputs \cup {Div(<<i>>) : i \in Inputs}] : n \in 0..MaxInputs}

Forms ==
    {Element("form", [action |-> a], c) : a \in FormActions, c \in FormContents}
    \cup {Element("form", <<>>, c) : c \in FormContents}

\* The form of another action that follows the first one in some documents.
SecondForm ==
    Element("form", [action |-> "/other"],
            <<Element("input", [name |-> "SAMLRequest", value |-> "other"], <<>>)>>)

\* The documents a response may carry, as the children of the body the HTML
\* parser gives: no form at all, one form, or a form inside a div followed by
\* a second form.
Documents ==
    {<<>>, <<Div(<<>>)>>}
    \cup {<<f>> : f \in Forms}
    \cup {<<Div(<<f>>), SecondForm>> : f \in Forms}

RECURSIVE iter(_)
\* The elements below the root in document order (the search order of the
\* path './/form', line 42).
iter(nodes) ==
    IF nodes = <<>> THEN <<>>
    ELSE <<Head(nodes)>> \o iter(Head(nodes).children) \o iter(Tail(nodes))

IsForm(e) == e.tag = "form"
IsInput(e) == e.tag = "input"

\* .find('.//form') (line 42): the first form in document order, or None.
find(doc) ==
    LET forms == SelectSeq(iter(doc), IsForm) IN
        IF forms = <<>> THEN None ELSE Head(forms)

\* form.findall('input') (line 45): the children of the form that are inputs.
findall(e) == SelectSeq(e.children, IsInput)

RECURSIVE dict(_)
\* The dict comprehension of line 45 over inputs that have name and value: a
\* later input's value replaces an earlier one's of the same name.
dict(inputs) ==
    IF inputs = <<>> THEN <<>>
    ELSE LET rest == dict(SubSeq(inputs, 1, Len(inputs) - 1))
             inp == inputs[Len(inputs)]
         IN  [k \in DOMAIN rest \cup {inp.attrib.name} |->
                 IF k = inp.attrib.name THEN inp.attrib.value ELSE rest[k]]

\* What extract_form gives: the exception it raises ("none" if none), and
\* the pair it returns.
Returned(e, action, data) == [exc |-> e, action |-> action, data |-> data]
NoForm == Returned("none", "", <<>>)

\* extract_form (lines 41-46). None has no attrib (AttributeError); a form
\* without action, or an input among its children without name or value, is
\* a KeyError.
extract_form(doc) ==
    LET el == find(doc)
        inputs == findall(el)
    IN  IF el = None THEN Returned("AttributeError", "", <<>>)
        ELSE IF \/ "action" \notin DOMAIN el.attrib
                \/ \E i \in DOMAIN inputs : ~({"name", "value"} \subseteq DOMAIN inputs[i].attrib)
        THEN Returned("KeyError", "", <<>>)
        ELSE Returned("none", el.attrib.action, dict(inputs))

\* What extract_form gives for the documents a response may carry.
Extracted == {extract_form(doc) : doc \in Documents}

VARIABLES
    pc,             \* the parent's position in main()
    totp_key,       \* main's totp_key: "None" or "seed"
    pyotp,          \* the module global pyotp: TRUE when the import succeeded
    sudo,           \* main's sudo, read when the argument vector is built
    events,         \* externally visible events so far, by kind
    inflight,       \* HTTP requests sent whose response has not been read
    r,              \* okta_auth's r: the latest identity-provider response
    factor,         \* okta_auth's loop variable at the break
    req,            \* the JSON body of the latest verify request
    waits,          \* MFA_CHALLENGE/WAITING answers given so far
    code,           \* okta_auth's code
    token,          \* okta_saml's token
    form,           \* what extract_form returned (or raised) last
    hdrs,           \* the headers of the completion response
    saml_username,  \* main's saml_username
    prelogin_cookie,\* main's prelogin_cookie
    subprocess_args,\* main's subprocess_args
    exc,            \* the exception that is propagating, "none" if none
    exitKind,       \* "running", "exit" (sys.exit or a traceback), "signal"
    exitCode,       \* main's exit code once exitKind = "exit"
    mask,           \* SIGTERM is blocked in the parent
    old_mask,       \* popen_forward_sigterm's old_mask (line 185)
    inner_mask,     \* the old_mask of the signal_mask of line 192
    old_handler,    \* signal_handler's old_handler
    handler,        \* the parent's SIGTERM handler: "default" or "forward"
    pending,        \* a SIGTERM is pending (blocked) in the parent
    tripped,        \* the interpreter noted a SIGTERM whose handler has not run
    nSigterm,       \* SIGTERMs sent to the parent so far
    html,           \* extract_form's html: the document it is applied to
    child,          \* "none", "running", "zombie", "reaped"
    childStatus,    \* the child's wait status: its exit code, or -SIGTERM
    childMask,      \* SIGTERM is blocked in the child
    childTerms,     \* SIGTERMs sent to the child so far
    returncode,     \* Popen.returncode: <<>> for None, <<status>> once known
    argv,           \* the child's argument vector
    stdinBuf,       \* bytes buffered in p.stdin
    stdinClosed,    \* p.stdin is closed
    written         \* bytes that reached the child's standard input

authVars == <<r, factor, req, waits, code, token, form>>
httpVars == <<events, inflight>>
mainVars == <<totp_key, pyotp, sudo, hdrs, saml_username, prelogin_cookie,
              subprocess_args>>
exitVars == <<exc, exitKind, exitCode>>
sigVars == <<mask, old_mask, inner_mask, old_handler, handler, pending, tripped>>
childVars == <<child, childStatus, childMask, childTerms, returncode, argv,
               stdinBuf, stdinClosed, written>>
vars == <<pc, authVars, httpVars, mainVars, exitVars, sigVars, nSigterm, html, childVars>>

\* Nothing has happened yet: no event, no response, no child, SIGTERM
\* neither blocked nor handled.
Fresh ==
    /\ sudo = FALSE
    /\ events = <<>>
    /\ inflight = 0
    /\ r = NoResponse
    /\ factor = NoFactor
    /\ req = NoRequest
    /\ waits = 0
    /\ code = ""
    /\ token = ""
    /\ form = NoForm
    /\ hdrs = <<>>
    /\ saml_username = <<>>
    /\ prelogin_cookie = <<>>
    /\ subprocess_args = <<>>
    /\ exc = "none"
    /\ exitKind = "running"
    /\ exitCode = 0
    /\ mask = FALSE
    /\ old_mask = FALSE
    /\ inner_mask = FALSE
    /\ old_handler = "default"
    /\ handler = "default"
    /\ pending = FALSE
    /\ tripped = FALSE
    /\ nSigterm = 0
    /\ child = "none"
    /\ childStatus = 0
    /\ childMask = FALSE
    /\ childTerms = 0
    /\ returncode = <<>>
    /\ argv = <<>>
    /\ stdinBuf = <<>>
    /\ stdinClosed = FALSE
    /\ written = <<>>

Init ==
    /\ pc = "start"
    /\ totp_key \in {"None", "seed"}
    /\ pyotp \in BOOLEAN
    /\ html = <<>>
    /\ Fresh

\* The parent runs its next statement: it is alive, and a noted signal's
\* handler runs first.
Runs(at) == pc = at /\ exitKind = "running" /\ ~tripped

\* An uncaught exception outside popen_forward_sigterm: the interpreter prints
\* the traceback and exits with code 1.
Raise(e) ==
    /\ pc' = "done"
    /\ exc' = e
    /\ exitKind' = "exit"
    /\ exitCode' = 1

\* MainCheckTotp with the slip of leaving the check to the moment the code
\* is computed.
MainCheckTotpLate ==
    /\ Runs("start")
    /\ pc' = "username"
    /\ UNCHANGED <<authVars, httpVars, mainVars, exitVars, sigVars, nSigterm, html, childVars>>

\* sys.exit(1) after the message (main, lines 207-209), else on to the prompts.
MainCheckTotp ==
    /\ Runs("start")
    /\ IF totp_key # "None" /\ ~pyotp
       THEN /\ pc' = "done"
            /\ exitKind' = "exit"
            /\ exitCode' = 1
            /\ exc' = exc
       ELSE /\ pc' = "username"
            /\ UNCHANGED exitVars
    /\ UNCHANGED <<authVars, httpVars, mainVars, sigVars, nSigterm, html, childVars>>

Log(e) == events' = Append(events, e)

\* An HTTP request goes out: requests is synchronous, the response is awaited.
Send(kind) ==
    /\ Log(kind)
    /\ inflight' = inflight + 1

\* username is None: input('Username: ') (main, lines 211-212).
MainUsername ==
    /\ Runs("username")
    /\ \E given \in BOOLEAN :
          events' = IF given THEN events ELSE Append(events, "prompt:username")
    /\ pc' = "password"
    /\ UNCHANGED <<authVars, inflight, mainVars, exitVars, sigVars, nSigterm, html, childVars>>

\* password is None: the keyring, then getpass (main, lines 213-216).
MainPassword ==
    /\ Runs("password")
    /\ \E given \in BOOLEAN, stored \in BOOLEAN :
          events' = IF given THEN events
                    ELSE IF stored THEN Append(events, "keyring")
                    ELSE events \o <<"keyring", "prompt:password">>
    /\ pc' = "prelogin"
    /\ UNCHANGED <<authVars, inflight, mainVars, exitVars, sigVars, nSigterm, html, childVars>>

(* ------------------------------ prelogin ------------------------------- *)

\* s.post(f'https://{gateway}/ssl-vpn/prelogin.esp') (line 50).
PreloginSend ==
    /\ Runs("prelogin")
    /\ Send("prelogin")
    /\ pc' = "prelogin_recv"
    /\ UNCHANGED <<authVars, mainVars, exitVars, sigVars, nSigterm, html, childVars>>

\* PreloginRecv with the slip of an okta_saml that goes straight to the
\* primary authentication.
PreloginRecvSkipsSamlGet ==
    /\ Runs("prelogin_recv")
    /\ inflight' = inflight - 1
    /\ \E ok \in BOOLEAN, res \in Extracted :
              IF ~ok THEN Raise("HTTPError") /\ form' = form
              ELSE IF res.exc # "none" THEN Raise(res.exc) /\ form' = res
              ELSE IF "SAMLRequest" \in DOMAIN res.data
              THEN pc' = "authn" /\ form' = NoForm /\ UNCHANGED exitVars
              ELSE Raise("AssertionError") /\ form' = res
    /\ UNCHANGED <<r, factor, req, waits, code, token, events, mainVars, sigVars,
                   nSigterm, html, childVars>>

\* PreloginRecv with the slip of leaving out the assert of line 55.
PreloginRecvNoAssert ==
    /\ Runs("prelogin_recv")
    /\ inflight' = inflight - 1
    /\ \E ok \in BOOLEAN, res \in Extracted :
              IF ~ok THEN Raise("HTTPError") /\ form' = form
              ELSE IF res.exc # "none" THEN Raise(res.exc) /\ form' = res
              ELSE pc' = "saml_get" /\ form' = res /\ UNCHANGED exitVars
    /\ UNCHANGED <<r, factor, req, waits, code, token, events, mainVars, sigVars,
                   nSigterm, html, childVars>>

\* check(), extract_form on the document of the response (res is what it
\* gives) and the assert of prelogin (lines 50-56); the URL prelogin returns
\* is made of the form.
PreloginRecv ==
    /\ Runs("prelogin_recv")
    /\ inflight' = inflight - 1
    /\ \E ok \in BOOLEAN, res \in Extracted :
              IF ~ok THEN Raise("HTTPError") /\ form' = form
              ELSE IF res.exc # "none" THEN Raise(res.exc) /\ form' = res
              ELSE IF "SAMLRequest" \in DOMAIN res.data
              THEN pc' = "saml_get" /\ form' = res /\ UNCHANGED exitVars
              ELSE Raise("AssertionError") /\ form' = res
    /\ UNCHANGED <<r, factor, req, waits, code, token, events, mainVars, sigVars,
                   nSigterm, html, childVars>>

(* ------------------------------ okta_saml ------------------------------ *)

\* check(s.get(saml_req_url)) (line 139): the request, to the URL made of
\* the form.
SamlGetSend ==
    /\ Runs("saml_get")
    /\ Send("saml_get")
    /\ form' = NoForm
    /\ pc' = "saml_get_recv"
    /\ UNCHANGED <<r, factor, req, waits, code, token, mainVars, exitVars, sigVars,
                   nSigterm, html, childVars>>

\* check(s.get(saml_req_url)) (line 139): the response, used for its status only.
SamlGetRecv ==
    /\ Runs("saml_get_recv")
    /\ inflight' = inflight - 1
    /\ \E ok \in BOOLEAN :
          IF ok THEN pc' = "authn" /\ UNCHANGED exitVars
          ELSE Raise("HTTPError")
    /\ UNCHANGED <<authVars, events, mainVars, sigVars, nSigterm, html, childVars>>

(* ------------------------------ okta_auth ------------------------------ *)

\* The lists of factors the identity provider may enumerate; a factor's verify
\* link is its place in the enumeration.
FactorLists ==
    UNION {{[i \in 1..n |-> [factorType |-> ts[i], href |-> i]] :
               ts \in [1..n -> FactorTypes]} : n \in 0..MaxFactors}

\* post_json(s, f'https://{domain}/api/v1/authn', ...) (lines 75-79): the request.
AuthnSend ==
    /\ Runs("authn")
    /\ Send("authn")
    /\ pc' = "authn_recv"
    /\ UNCHANGED <<authVars, mainVars, exitVars, sigVars, nSigterm, html, childVars>>

\* What the identity provider may answer to the primary authentication.
AuthnResponses ==
    {[NoResponse EXCEPT !.status = "SUCCESS", !.sessionToken = t] : t \in SessionTokens}
    \cup {[NoResponse EXCEPT !.status = "MFA_REQUIRED", !.stateToken = st, !.factors = fs] :
             st \in StateTokens, fs \in FactorLists}
    \cup {[NoResponse EXCEPT !.status = "LOCKED_OUT"]}

\* The primary response and the test of line 81.
AuthnRecv ==
    /\ Runs("authn_recv")
    /\ inflight' = inflight - 1
    /\ \/ /\ Raise("HTTPError")
          /\ r' = r
       \/ /\ \E resp \in AuthnResponses :
                /\ r' = resp
                /\ pc' = IF resp.status = "MFA_REQUIRED" THEN "mfa_select" ELSE "auth_final"
          /\ UNCHANGED exitVars
    /\ UNCHANGED <<factor, req, waits, code, token, form, events, mainVars, sigVars,
                   nSigterm, html, childVars>>

\* priority with the slip of ranking software TOTP first whether or not a
\* seed was supplied.
priorityIgnoringSeed(f) ==
    IF f.factorType = "token:software:totp" THEN 0
    ELSE IF f.factorType = "push" THEN 1
    ELSE 2

\* priority() of okta_auth (lines 83-86).
priority(f) ==
    IF f.factorType = "token:software:totp" THEN (IF totp_key = "None" THEN 2 ELSE 0)
    ELSE IF f.factorType = "push" THEN 1
    ELSE 2

\* sorted(r['_embedded']['factors'], key=priority) (line 88): sorted() is
\* stable, so the result is the factors of key 0, then 1, then 2, each group
\* in the order it had.
HasPriority0(f) == priority(f) = 0
HasPriority1(f) == priority(f) = 1
HasPriority2(f) == priority(f) = 2
sorted(fs) ==
    SelectSeq(fs, HasPriority0) \o SelectSeq(fs, HasPriority1) \o SelectSeq(fs, HasPriority2)

\* IsToken with the slip of a pattern that matches software TOTP alone.
IsTokenTotpOnly(t) == t = "token:software:totp"

\* re.match('token(?::|$)', factorType) (line 107), on the factor types offered.
IsToken(t) == t \in {"token:software:totp", "token:hardware"}

\* The tests of lines 89, 100 and 107: the loop body breaks for these types
\* and falls through to the next factor for every other.
Handled(f) == f.factorType = "push" \/ f.factorType = "sms" \/ IsToken(f.factorType)

RECURSIVE FirstHandled(_)
\* The for loop of line 88 up to its break: the first factor of the list a
\* branch takes, NoFactor when the loop runs out (the else of line 122).
FirstHandled(fs) ==
    IF fs = <<>> THEN NoFactor
    ELSE IF Handled(Head(fs)) THEN Head(fs)
    ELSE FirstHandled(Tail(fs))

\* The for loop of lines 88-123 up to the first request of a branch. Of the
\* response only the stateToken is read from here on: the list of factors is
\* kept no longer.
SelectFactor ==
    /\ Runs("mfa_select")
    /\ LET f == FirstHandled(sorted(r.factors)) IN
          IF f = NoFactor
          THEN /\ Raise("Exception: No supported authentication factors")
               /\ UNCHANGED <<factor, r>>
          ELSE /\ factor' = f
               /\ r' = [r EXCEPT !.factors = <<>>]
               /\ pc' = IF f.factorType = "push" THEN "push" ELSE "arm"
               /\ UNCHANGED exitVars
    /\ UNCHANGED <<req, waits, code, token, form, httpVars, mainVars, sigVars,
                   nSigterm, html, childVars>>

\* The JSON body of a verify request (lines 94, 102, 105, 109, 120), with the
\* link it is posted to.
VerifyBody(passCode) ==
    [url |-> factor.href, stateToken |-> r.stateToken, passCode |-> passCode]

\* What the identity provider may answer to a verify request.
ChallengeResponses(results) ==
    {[NoResponse EXCEPT !.status = "MFA_CHALLENGE", !.stateToken = st, !.factorResult = fr] :
         st \in StateTokens, fr \in results}
FinalResponses ==
    {[NoResponse EXCEPT !.status = "SUCCESS", !.sessionToken = t] : t \in SessionTokens}
    \cup {[NoResponse EXCEPT !.status = "LOCKED_OUT"]}

\* PushSend with the slip of posting every poll twice.
PushSendTwice ==
    /\ Runs("push")
    /\ events' = events \o <<"verify", "verify">>
    /\ inflight' = inflight + 1
    /\ req' = VerifyBody("")
    /\ pc' = "push_recv"
    /\ UNCHANGED <<r, factor, waits, code, token, form, mainVars, exitVars, sigVars,
                   nSigterm, html, childVars>>

\* PushSend with the slip of reading the stateToken once, before the loop:
\* every poll carries the token of the primary response.
PushSendStaleToken ==
    /\ Runs("push")
    /\ Send("verify")
    /\ req' = IF req = NoRequest THEN VerifyBody("")
              ELSE [VerifyBody("") EXCEPT !.stateToken = req.stateToken]
    /\ pc' = "push_recv"
    /\ UNCHANGED <<r, factor, waits, code, token, form, mainVars, exitVars, sigVars,
                   nSigterm, html, childVars>>

\* The push branch's post_json (lines 93-95): the request.
PushSend ==
    /\ Runs("push")
    /\ Send("verify")
    /\ req' = VerifyBody("")
    /\ pc' = "push_recv"
    /\ UNCHANGED <<r, factor, waits, code, token, form, mainVars, exitVars, sigVars,
                   nSigterm, html, childVars>>

\* The test of line 96: the loop is left.
PushLoopBreaks(resp) == resp.status # "MFA_CHALLENGE"

\* The factorResult values of an MFA_CHALLENGE answer to a push poll.
PushResults == {"WAITING", "REJECTED", "TIMEOUT"}

\* PushRecv with the slip of leaving out the assert of line 98: the loop
\* polls on whatever the factorResult.
PushRecvNoAssert ==
    /\ Runs("push_recv")
    /\ inflight' = inflight - 1
    /\ \/ /\ Raise("HTTPError")
          /\ UNCHANGED <<r, waits>>
       \/ \E resp \in ChallengeResponses(PushResults) \cup FinalResponses :
             /\ resp.factorResult = "WAITING" => waits < MaxPolls
             /\ r' = resp
             /\ waits' = IF resp.factorResult = "WAITING" THEN waits + 1 ELSE waits
             /\ pc' = IF PushLoopBreaks(resp) THEN "auth_final" ELSE "push"
             /\ UNCHANGED exitVars
    /\ UNCHANGED <<factor, req, code, token, form, events, mainVars, sigVars, nSigterm,
                   html, childVars>>

\* PushRecv with the slip of a loop that gives up at its second WAITING
\* answer.
PushRecvCapped ==
    /\ Runs("push_recv")
    /\ inflight' = inflight - 1
    /\ \/ /\ Raise("HTTPError")
          /\ UNCHANGED <<r, waits>>
       \/ \E resp \in ChallengeResponses(PushResults) \cup FinalResponses :
             /\ resp.factorResult = "WAITING" => waits < MaxPolls
             /\ r' = resp
             /\ waits' = IF resp.factorResult = "WAITING" THEN waits + 1 ELSE waits
             /\ IF PushLoopBreaks(resp)
                THEN pc' = "auth_final" /\ UNCHANGED exitVars
                ELSE IF resp.factorResult = "WAITING" /\ waits < 1
                THEN pc' = "push" /\ UNCHANGED exitVars
                ELSE IF resp.factorResult = "WAITING"
                THEN Raise("TimeoutError")
                ELSE Raise("AssertionError")
    /\ UNCHANGED <<factor, req, code, token, form, events, mainVars, sigVars, nSigterm,
                   html, childVars>>

\* The push branch's response, the break of lines 96-97 and the assert of line 98.
PushRecv ==
    /\ Runs("push_recv")
    /\ inflight' = inflight - 1
    /\ \/ /\ Raise("HTTPError")
          /\ UNCHANGED <<r, waits>>
       \/ \E resp \in ChallengeResponses(PushResults) \cup FinalResponses :
             /\ resp.factorResult = "WAITING" => waits < MaxPolls
             /\ r' = resp
             /\ waits' = IF resp.factorResult = "WAITING" THEN waits + 1 ELSE waits
             /\ IF PushLoopBreaks(resp)
                THEN pc' = "auth_final" /\ UNCHANGED exitVars
                ELSE IF resp.factorResult = "WAITING"
                THEN pc' = "push" /\ UNCHANGED exitVars
                ELSE Raise("AssertionError")
    /\ UNCHANGED <<factor, req, code, token, form, events, mainVars, sigVars, nSigterm, html,
                   childVars>>

\* The first post_json of the sms and token branches (lines 102, 109): the request.
ArmSend ==
    /\ Runs("arm")
    /\ Send("verify")
    /\ req' = VerifyBody("")
    /\ pc' = "arm_recv"
    /\ UNCHANGED <<r, factor, waits, code, token, form, mainVars, exitVars, sigVars,
                   nSigterm, html, childVars>>

\* ArmRecv with the slip of leaving out the assert of lines 103, 110.
ArmRecvNoAssert ==
    /\ Runs("arm_recv")
    /\ inflight' = inflight - 1
    /\ \/ /\ Raise("HTTPError")
          /\ r' = r
       \/ \E resp \in ChallengeResponses({""}) \cup FinalResponses :
             /\ r' = resp
             /\ pc' = "code"
             /\ UNCHANGED exitVars
    /\ UNCHANGED <<factor, req, waits, code, token, form, events, mainVars, sigVars,
                   nSigterm, html, childVars>>

\* Its response and the assert of lines 103, 110.
ArmRecv ==
    /\ Runs("arm_recv")
    /\ inflight' = inflight - 1
    /\ \/ /\ Raise("HTTPError")
          /\ r' = r
       \/ \E resp \in ChallengeResponses({""}) \cup FinalResponses :
             /\ r' = resp
             /\ IF resp.status = "MFA_CHALLENGE"
                THEN pc' = "code" /\ UNCHANGED exitVars
                ELSE Raise("AssertionError")
    /\ UNCHANGED <<factor, req, waits, code, token, form, events, mainVars, sigVars,
                   nSigterm, html, childVars>>

\* The test of lines 111-113: the code is computed, not asked for.
ComputesCode == factor.factorType = "token:software:totp" /\ totp_key # "None"

\* The one-time code: input() (lines 104, 116-119) or pyotp.TOTP(totp_key).now()
\* (line 114).
GetCode ==
    /\ Runs("code")
    /\ IF factor.factorType # "sms" /\ ComputesCode
       THEN Log("totp") /\ code' = "computed"
       ELSE Log("prompt:code") /\ code' = "typed"
    /\ pc' = "pass"
    /\ UNCHANGED <<r, factor, req, waits, token, form, inflight, mainVars, exitVars,
                   sigVars, nSigterm, html, childVars>>

\* The second post_json of the sms and token branches (lines 105, 120): the request.
PassSend ==
    /\ Runs("pass")
    /\ Send("verify")
    /\ req' = VerifyBody(code)
    /\ pc' = "pass_recv"
    /\ UNCHANGED <<r, factor, waits, code, token, form, mainVars, exitVars, sigVars,
                   nSigterm, html, childVars>>

\* Its response, and the break of lines 106, 121.
PassRecv ==
    /\ Runs("pass_recv")
    /\ inflight' = inflight - 1
    /\ \/ /\ Raise("HTTPError")
          /\ r' = r
       \/ /\ \E resp \in ChallengeResponses({""}) \cup FinalResponses : r' = resp
          /\ pc' = "auth_final"
          /\ UNCHANGED exitVars
    /\ UNCHANGED <<factor, req, waits, code, token, form, events, mainVars, sigVars,
                   nSigterm, html, childVars>>

\* AuthFinal with the slip of going on to the next factor (continue for
\* break) when the factor pursued did not end in SUCCESS.
AuthFinalTriesNext ==
    /\ Runs("auth_final")
    /\ IF r.status = "SUCCESS"
       THEN /\ token' = r.sessionToken
            /\ r' = NoResponse
            /\ factor' = NoFactor
            /\ req' = NoRequest
            /\ waits' = 0
            /\ code' = ""
            /\ pc' = "redirect"
       ELSE /\ factor' = [factorType |-> "sms", href |-> (factor.href % MaxFactors) + 1]
            /\ pc' = "arm"
            /\ UNCHANGED <<r, req, waits, code, token>>
    /\ UNCHANGED <<form, httpVars, mainVars, exitVars, sigVars, nSigterm, html, childVars>>

\* assert r['status'] == 'SUCCESS'; return r['sessionToken'] (lines 125-126),
\* bound to token by okta_saml (line 141). okta_auth's locals end with it.
AuthFinal ==
    /\ Runs("auth_final")
    /\ IF r.status = "SUCCESS"
       THEN /\ token' = r.sessionToken
            /\ r' = NoResponse
            /\ factor' = NoFactor
            /\ req' = NoRequest
            /\ waits' = 0
            /\ code' = ""
            /\ pc' = "redirect"
            /\ UNCHANGED exitVars
       ELSE /\ Raise("AssertionError")
            /\ UNCHANGED <<r, factor, req, waits, code, token>>
    /\ UNCHANGED <<form, httpVars, mainVars, sigVars, nSigterm, html, childVars>>

(* ------------------------ okta_saml, complete_saml --------------------- *)

\* s.get(f'https://{domain}/login/sessionCookieRedirect', ...) (lines 143-148).
RedirectSend ==
    /\ Runs("redirect")
    /\ Send("redirect")
    /\ pc' = "redirect_recv"
    /\ UNCHANGED <<authVars, mainVars, exitVars, sigVars, nSigterm, html, childVars>>

\* check(), extract_form on the document of the response (res is what it
\* gives) and the assert of okta_saml (lines 143-151); token ends with
\* okta_saml.
RedirectRecv ==
    /\ Runs("redirect_recv")
    /\ inflight' = inflight - 1
    /\ \E ok \in BOOLEAN, res \in Extracted :
              IF ~ok THEN Raise("HTTPError") /\ UNCHANGED <<form, token>>
              ELSE /\ form' = res
                   /\ IF res.exc # "none" THEN Raise(res.exc) /\ token' = token
                      ELSE IF "SAMLResponse" \in DOMAIN res.data
                      THEN pc' = "complete" /\ token' = "" /\ UNCHANGED exitVars
                      ELSE Raise("AssertionError") /\ token' = token
    /\ UNCHANGED <<r, factor, req, waits, code, events, mainVars, sigVars,
                   nSigterm, html, childVars>>

\* s.post(saml_resp_url, data=saml_resp_data) (line 157): the request, which
\* carries the form.
CompleteSend ==
    /\ Runs("complete")
    /\ Send("complete")
    /\ form' = NoForm
    /\ pc' = "complete_recv"
    /\ UNCHANGED <<r, factor, req, waits, code, token, mainVars, exitVars, sigVars,
                   nSigterm, html, childVars>>

HeaderNames == {"saml-username", "prelogin-cookie"}

\* The headers the gateway may answer the completion with.
CompletionHeaders ==
    {[h \in hs |-> IF h = "saml-username" THEN u ELSE c] :
        hs \in SUBSET HeaderNames, u \in Usernames, c \in Cookies}

\* CompleteRecv with the slip of looking the headers up with a default
\* (headers.get(name, '')) instead of indexing.
CompleteRecvLenient ==
    /\ Runs("complete_recv")
    /\ inflight' = inflight - 1
    /\ \/ /\ Raise("HTTPError")
          /\ UNCHANGED <<hdrs, saml_username, prelogin_cookie>>
       \/ \E h \in CompletionHeaders :
             /\ hdrs' = h
             /\ saml_username' = IF "saml-username" \in DOMAIN h THEN h["saml-username"] ELSE <<>>
             /\ prelogin_cookie' = IF "prelogin-cookie" \in DOMAIN h THEN h["prelogin-cookie"] ELSE <<>>
             /\ pc' = "args"
             /\ UNCHANGED exitVars
    /\ UNCHANGED <<authVars, events, totp_key, pyotp, sudo, subprocess_args, sigVars,
                   nSigterm, html, childVars>>

\* check() and the two header lookups of complete_saml (lines 157-158), bound
\* by main (line 223).
CompleteRecv ==
    /\ Runs("complete_recv")
    /\ inflight' = inflight - 1
    /\ \/ /\ Raise("HTTPError")
          /\ UNCHANGED <<hdrs, saml_username, prelogin_cookie>>
       \/ \E h \in CompletionHeaders :
             /\ hdrs' = h
             /\ IF HeaderNames \subseteq DOMAIN h
                THEN /\ saml_username' = h["saml-username"]
                     /\ prelogin_cookie' = h["prelogin-cookie"]
                     /\ pc' = "args"
                     /\ UNCHANGED exitVars
                ELSE /\ Raise("KeyError")
                     /\ UNCHANGED <<saml_username, prelogin_cookie>>
    /\ UNCHANGED <<authVars, events, totp_key, pyotp, sudo, subprocess_args, sigVars,
                   nSigterm, html, childVars>>

(* --------------------------------- main -------------------------------- *)

\* "--cookie="
S_cookie == <<45, 45, 99, 111, 111, 107, 105, 101, 61>>

\* BuildArgs with the slip of handing the cookie over on the command line.
BuildArgsWithCookie ==
    /\ Runs("args")
    /\ \E s \in BOOLEAN :
          /\ sudo' = s
          /\ subprocess_args' =
                (IF s THEN <<S_sudo>> ELSE <<>>)
                \o <<S_openconnect, S_gw, S_protocol, S_user \o saml_username,
                     S_usergroup, S_cookie \o prelogin_cookie>>
    /\ pc' = "block"
    /\ UNCHANGED <<authVars, httpVars, totp_key, pyotp, hdrs, saml_username,
                   prelogin_cookie, exitVars, sigVars, nSigterm, html, childVars>>

\* subprocess_args (lines 225-235).
BuildArgs ==
    /\ Runs("args")
    /\ \E s \in BOOLEAN :
          /\ sudo' = s
          /\ subprocess_args' =
                (IF s THEN <<S_sudo>> ELSE <<>>)
                \o <<S_openconnect, S_gw, S_protocol, S_user \o saml_username,
                     S_usergroup, S_passwd>>
    /\ pc' = "block"
    /\ UNCHANGED <<authVars, httpVars, totp_key, pyotp, hdrs, saml_username,
                   prelogin_cookie, exitVars, sigVars, nSigterm, html, childVars>>


(* ------------------------- popen_forward_sigterm ----------------------- *)

\* The parent dies of a SIGTERM it neither blocks nor handles.
Killed ==
    /\ pc' = "done"
    /\ exitKind' = "signal"
    /\ UNCHANGED <<exc, exitCode>>

\* signal.pthread_sigmask setting the parent's mask to m (lines 163, 167): a
\* pending SIGTERM is delivered as soon as it is unblocked, to the handler
\* installed then. Gives the parent's position unless the signal kills it.
SetMask(m, next) ==
    /\ mask' = m
    /\ IF pending /\ ~m
       THEN /\ pending' = FALSE
            /\ IF handler = "forward"
               THEN tripped' = TRUE /\ pc' = next /\ UNCHANGED <<exitKind, exitCode>>
               ELSE tripped' = tripped /\ pc' = "done" /\ exitKind' = "signal"
                    /\ exitCode' = exitCode
       ELSE /\ UNCHANGED <<pending, tripped, exitKind, exitCode>>
            /\ pc' = next

\* BlockSigterm with the slip of a signal_mask that saves the mask and blocks
\* nothing.
BlockSigtermBlocksNothing ==
    /\ Runs("block")
    /\ old_mask' = mask
    /\ pc' = "spawn"
    /\ UNCHANGED <<authVars, httpVars, mainVars, exitVars, mask, inner_mask, old_handler,
                   handler, pending, tripped, nSigterm, html, childVars>>

\* with signal_mask(signal.SIG_BLOCK, {signal.SIGTERM}) as old_mask (line 185).
BlockSigterm ==
    /\ Runs("block")
    /\ old_mask' = mask
    /\ mask' = TRUE
    /\ pc' = "spawn"
    /\ UNCHANGED <<authVars, httpVars, mainVars, exitVars, inner_mask, old_handler,
                   handler, pending, tripped, nSigterm, html, childVars>>

\* PreexecMask with the slip of a Popen without preexec_fn: the child keeps
\* the mask it inherits from the parent.
PreexecMaskInherited == mask

\* preexec_fn (line 189): the mask the child starts the VPN client with.
PreexecMask == old_mask

\* subprocess.Popen(args, stdin=stdin, preexec_fn=...) (lines 186-190): the
\* child runs, or the program cannot be started and Popen raises.
Spawn ==
    /\ Runs("spawn")
    /\ \/ /\ child' = "running"
          /\ childMask' = PreexecMask
          /\ argv' = subprocess_args
          /\ Log("spawn")
          /\ pc' = "install"
          /\ exc' = exc
       \/ /\ exc' = "OSError"
          /\ pc' = "restore_outer"
          /\ UNCHANGED <<child, childMask, argv, events>>
    /\ UNCHANGED <<authVars, inflight, mainVars, exitKind, exitCode, sigVars, nSigterm, html,
                   childStatus, childTerms, returncode, stdinBuf, stdinClosed, written>>

\* with signal_handler(signal.SIGTERM, lambda *args: p.terminate()) (lines 191, 174).
InstallHandler ==
    /\ Runs("install")
    /\ old_handler' = handler
    /\ handler' = "forward"
    /\ pc' = "unblock"
    /\ UNCHANGED <<authVars, httpVars, mainVars, exitVars, mask, old_mask, inner_mask,
                   pending, tripped, nSigterm, html, childVars>>

\* with signal_mask(signal.SIG_SETMASK, old_mask) (lines 192, 163).
Unblock ==
    /\ Runs("unblock")
    /\ inner_mask' = mask
    /\ SetMask(old_mask, "body")
    /\ exc' = exc
    /\ UNCHANGED <<authVars, httpVars, mainVars, old_mask, old_handler, handler,
                   nSigterm, html, childVars>>

\* WriteCookie with the slip of ending the cookie with a newline.
WriteCookieWithNewline ==
    /\ Runs("body")
    /\ stdinBuf' = stdinBuf \o encode(prelogin_cookie) \o <<10>>
    /\ pc' = "close"
    /\ UNCHANGED <<authVars, httpVars, mainVars, exitVars, sigVars, nSigterm, html, child,
                   childStatus, childMask, childTerms, returncode, argv, stdinClosed,
                   written>>

\* p.stdin.write(prelogin_cookie.encode()) (line 238): the body of main's with.
WriteCookie ==
    /\ Runs("body")
    /\ stdinBuf' = stdinBuf \o encode(prelogin_cookie)
    /\ pc' = "close"
    /\ UNCHANGED <<authVars, httpVars, mainVars, exitVars, sigVars, nSigterm, html, child,
                   childStatus, childMask, childTerms, returncode, argv, stdinClosed,
                   written>>

\* if p.stdin: p.stdin.close() (lines 194-195): the buffer is flushed to the
\* pipe, whose read end is open while the child runs.
CloseStdin ==
    /\ Runs("close")
    /\ stdinClosed' = TRUE
    /\ stdinBuf' = <<>>
    /\ IF child = "running"
       THEN /\ written' = written \o stdinBuf
            /\ pc' = "waitid"
            /\ exc' = exc
       ELSE /\ written' = written
            /\ pc' = "restore_inner"
            /\ exc' = "BrokenPipeError"
    /\ UNCHANGED <<authVars, httpVars, mainVars, exitKind, exitCode, sigVars, nSigterm, html,
                   child, childStatus, childMask, childTerms, returncode, argv>>

\* os.waitid(os.P_PID, p.pid, os.WEXITED | os.WNOWAIT) (line 196): returns
\* once the child has exited and leaves it to be reaped; no such child is
\* ChildProcessError; blocks while the child runs.
WaitId ==
    /\ Runs("waitid")
    /\ child # "running"
    /\ exc' = IF child = "zombie" THEN exc ELSE "ChildProcessError"
    /\ pc' = "restore_inner"
    /\ UNCHANGED <<authVars, httpVars, mainVars, exitKind, exitCode, sigVars, nSigterm, html,
                   childVars>>

\* RestoreInnerMask with the slip of a signal_mask that does not restore the
\* mask it found.
RestoreInnerMaskSkipped ==
    /\ Runs("restore_inner")
    /\ pc' = "restore_handler"
    /\ UNCHANGED <<authVars, httpVars, mainVars, exitVars, sigVars, nSigterm, html, childVars>>

\* The finally of the signal_mask of line 192 (line 167).
RestoreInnerMask ==
    /\ Runs("restore_inner")
    /\ SetMask(inner_mask, "restore_handler")
    /\ exc' = exc
    /\ UNCHANGED <<authVars, httpVars, mainVars, old_mask, inner_mask, old_handler,
                   handler, nSigterm, html, childVars>>

\* The finally of signal_handler (line 178).
RestoreHandler ==
    /\ Runs("restore_handler")
    /\ handler' = old_handler
    /\ pc' = "popen_exit"
    /\ UNCHANGED <<authVars, httpVars, mainVars, exitVars, mask, old_mask, inner_mask,
                   old_handler, pending, tripped, nSigterm, html, childVars>>

\* Popen.__exit__ (the with of line 186): closes stdin if it is open, then
\* wait(), which reaps the child unless returncode is known already.
PopenExit ==
    /\ Runs("popen_exit")
    /\ returncode = <<>> => child = "zombie"
    /\ IF returncode = <<>>
       THEN child' = "reaped" /\ returncode' = <<childStatus>>
       ELSE UNCHANGED <<child, returncode>>
    /\ stdinClosed' = TRUE
    /\ pc' = "restore_outer"
    /\ UNCHANGED <<authVars, httpVars, mainVars, exitVars, sigVars, nSigterm, html,
                   childStatus, childMask, childTerms, argv, stdinBuf, written>>

\* The finally of the signal_mask of line 185 (line 167); an exception that
\* propagates then leaves main: a traceback and exit code 1.
RestoreOuterMask ==
    /\ Runs("restore_outer")
    /\ IF exc = "none" \/ (pending /\ ~old_mask)
       THEN SetMask(old_mask, "sys_exit")
       ELSE /\ mask' = old_mask
            /\ pc' = "done"
            /\ exitKind' = "exit"
            /\ exitCode' = 1
            /\ UNCHANGED <<pending, tripped>>
    /\ exc' = exc
    /\ UNCHANGED <<authVars, httpVars, mainVars, old_mask, inner_mask, old_handler,
                   handler, nSigterm, html, childVars>>

\* sys.exit(p.returncode) (line 239): the exit status is its low eight bits.
SysExit ==
    /\ Runs("sys_exit")
    /\ pc' = "done"
    /\ exitKind' = "exit"
    /\ exitCode' = returncode[1] % 256
    /\ exc' = exc
    /\ UNCHANGED <<authVars, httpVars, mainVars, sigVars, nSigterm, html, childVars>>

\* The handler of line 191, lambda *args: p.terminate(): Popen.send_signal
\* polls, which reaps a child that has exited, and sends SIGTERM to a child
\* that has not.
ForwardSigterm ==
    /\ exitKind = "running"
    /\ tripped
    /\ tripped' = FALSE
    /\ IF returncode = <<>> /\ child = "zombie"
       THEN child' = "reaped" /\ returncode' = <<childStatus>> /\ childTerms' = childTerms
       ELSE IF returncode = <<>> /\ child = "running"
       THEN childTerms' = childTerms + 1 /\ UNCHANGED <<child, returncode>>
       ELSE UNCHANGED <<child, returncode, childTerms>>
    /\ UNCHANGED <<pc, authVars, httpVars, mainVars, exitVars, mask, old_mask, inner_mask,
                   old_handler, handler, pending, nSigterm, html, childStatus, childMask, argv,
                   stdinBuf, stdinClosed, written>>

(* ----------------------------- environment ----------------------------- *)

\* The operating environment sends SIGTERM to the parent: kept pending while
\* blocked, else noted for the Python handler, else fatal.
Sigterm ==
    /\ exitKind = "running"
    /\ nSigterm < MaxSigterm
    /\ nSigterm' = nSigterm + 1
    /\ IF mask
       THEN pending' = TRUE /\ UNCHANGED <<tripped, pc, exitVars>>
       ELSE IF handler = "forward"
       THEN tripped' = TRUE /\ UNCHANGED <<pending, pc, exitVars>>
       ELSE Killed /\ UNCHANGED <<pending, tripped>>
    /\ UNCHANGED <<authVars, httpVars, mainVars, mask, old_mask, inner_mask, old_handler,
                   handler, html, childVars>>

\* The VPN client exits with a code of its own (also when it handles SIGTERM).
ChildExit ==
    /\ exitKind = "running"
    /\ child = "running"
    /\ \E c \in ExitCodes : childStatus' = c
    /\ child' = "zombie"
    /\ UNCHANGED <<pc, authVars, httpVars, mainVars, exitVars, sigVars, nSigterm, html,
                   childMask, childTerms, returncode, argv, stdinBuf, stdinClosed, written>>

\* The VPN client dies of the SIGTERM sent to it.
ChildKilled ==
    /\ exitKind = "running"
    /\ child = "running"
    /\ childTerms > 0 /\ ~childMask
    /\ childStatus' = -SIGTERM
    /\ child' = "zombie"
    /\ UNCHANGED <<pc, authVars, httpVars, mainVars, exitVars, sigVars, nSigterm, html,
                   childMask, childTerms, returncode, argv, stdinBuf, stdinClosed, written>>


\* The statements of the main thread, the handler included.
ParentNext ==
    \/ MainCheckTotp
    \/ MainUsername
    \/ MainPassword
    \/ PreloginSend
    \/ PreloginRecv
    \/ SamlGetSend
    \/ SamlGetRecv
    \/ AuthnSend
    \/ AuthnRecv
    \/ SelectFactor
    \/ PushSend
    \/ PushRecv
    \/ ArmSend
    \/ ArmRecv
    \/ GetCode
    \/ PassSend
    \/ PassRecv
    \/ AuthFinal
    \/ RedirectSend
    \/ RedirectRecv
    \/ CompleteSend
    \/ CompleteRecv
    \/ BuildArgs
    \/ BlockSigterm
    \/ Spawn
    \/ InstallHandler
    \/ Unblock
    \/ WriteCookie
    \/ CloseStdin
    \/ WaitId
    \/ RestoreInnerMask
    \/ RestoreHandler
    \/ PopenExit
    \/ RestoreOuterMask
    \/ SysExit
    \/ ForwardSigterm

\* The operating environment and the child.
EnvNext ==
    \/ Sigterm
    \/ ChildExit
    \/ ChildKilled

Next == ParentNext \/ EnvNext

Spec == Init /\ [][Next]_vars

\* The interpreter keeps running the main thread: a statement that can run
\* (a response that arrives, a wait that can return, a handler that is due)
\* does run. Nothing obliges the environment to send a signal or the child
\* to exit.
FairSpec == Spec /\ WF_vars(ParentNext)

(* ----------------------------- extract_form ---------------------------- *)

\* extract_form on its own: a document is given.
FormInit ==
    /\ pc = "extract_form"
    /\ totp_key = "None"
    /\ pyotp = TRUE
    /\ html \in Documents
    /\ Fresh

\* extract_form(html) (lines 41-46) runs and returns or raises.
ExtractForm ==
    /\ Runs("extract_form")
    /\ form' = extract_form(html)
    /\ pc' = "extracted"
    /\ UNCHANGED <<r, factor, req, waits, code, token, httpVars, mainVars, exitVars,
                   sigVars, nSigterm, html, childVars>>

FormNext == ExtractForm

FormSpec == FormInit /\ [][FormNext]_vars

(* ------------------------------- claims -------------------------------- *)

\* C1, deferral: a SIGTERM that reaches the parent after the child is spawned
\* and before the forwarding handler is installed is kept pending: it neither
\* kills the parent nor is it handled or forwarded yet.
C1_Deferred ==
    [][(nSigterm' # nSigterm /\ pc = "install")
          => (pending' /\ ~tripped' /\ exitKind' = "running" /\ childTerms' = childTerms)]_vars

\* C1, not lost: while the child runs, a pending SIGTERM leaves the pending
\* state only by being handed to the forwarding handler.
C1_NotLost ==
    [][(pending /\ ~pending' /\ child = "running")
          => (handler = "forward" /\ tripped' /\ exitKind' = "running")]_vars

\* C1, forwarding: a SIGTERM that has reached the parent (pending or noted)
\* while the child runs is eventually handled by the forwarding handler, unless
\* the child stops running first.
C1_Handled ==
    (child = "running" /\ (pending \/ tripped))
        ~> ((~pending /\ ~tripped /\ exitKind = "running") \/ child # "running")

\* C1, forwarding: the handler, run for a noted SIGTERM while the child runs,
\* sends the child one terminate request.
C1_Forwarded ==
    [][(tripped /\ ~tripped' /\ child = "running") => childTerms' = childTerms + 1]_vars

\* C1: a SIGTERM that arrives after the child is spawned while the child still
\* runs is eventually forwarded to the child as a terminate request, and one
\* that arrives before the forwarding handler is installed is deferred, not
\* lost and not handled by the previous handler, until the handler exists.
C1_SignalForwarding == C1_Deferred /\ C1_NotLost /\ C1_Handled /\ C1_Forwarded

\* C1 witness: the one SIGTERM sent to the parent has been forwarded to the
\* running child.
C1_Witness ==
    /\ child = "running"
    /\ nSigterm = 1
    /\ childTerms = 1
    /\ ~pending /\ ~tripped

\* C2, the invariant: while the child exists (spawned, not reaped) and the
\* forwarding handler is not installed, SIGTERM is blocked in the parent.
C2_Masked ==
    (child \in {"running", "zombie"} /\ handler # "forward") => mask

\* C2, the order: the child is spawned only while SIGTERM is blocked, the
\* handler is installed only once the child exists and while SIGTERM is
\* blocked, and SIGTERM is unblocked beside a child only under the handler.
C2_Order ==
    [][/\ (child = "none" /\ child' # "none") => (mask /\ handler = "default")
       /\ (handler # "forward" /\ handler' = "forward") => (child # "none" /\ mask)
       /\ (mask /\ ~mask' /\ child \in {"running", "zombie"}) => handler' = "forward"]_vars

\* C2: mask discipline of popen_forward_sigterm: block, spawn, install,
\* unblock, so that the parent never has SIGTERM unblocked under the old
\* handler while a child exists.
C2_MaskDiscipline == []C2_Masked /\ C2_Order

\* C2 witness: the child runs, the old handler is still in place and SIGTERM
\* is blocked.
C2_Witness ==
    /\ child = "running"
    /\ handler = "default"
    /\ mask
    /\ pc = "install"

(* Helpers of the claims below. *)

\* The factor types the claims call supported: push, sms and token-prefixed.
ClaimSupported(t) == t \in {"push", "sms", "token:software:totp", "token:hardware"}

\* The claims' ranking: software TOTP highest only with a seed, push in the
\* middle, every other type lowest.
ClaimRank(t) ==
    IF t = "token:software:totp" /\ totp_key # "None" THEN 0
    ELSE IF t = "push" THEN 1
    ELSE 2

\* Factor i of fs comes first among those of I: no factor of I has a better
\* rank, and none of equal rank was enumerated before it.
FirstAmong(fs, I, i) ==
    /\ i \in I
    /\ \A j \in I :
          \/ ClaimRank(fs[j].factorType) > ClaimRank(fs[i].factorType)
          \/ (ClaimRank(fs[j].factorType) = ClaimRank(fs[i].factorType) /\ j >= i)

TypesOf(fs) == {fs[i].factorType : i \in DOMAIN fs}

\* okta_auth takes up a factor in this step.
SelectStep == pc = "mfa_select" /\ pc' \in {"push", "arm"}

IsVerify(e) == e = "verify"
VerifyCount == Len(SelectSeq(events, IsVerify))
Has(seq, x) == \E i \in DOMAIN seq : seq[i] = x
LastEvent == events[Len(events)]

\* C3 as stated: the factor pursued is the first one in priority order
\* (software TOTP highest only with a seed, push in the middle, every other
\* type lowest, ties by enumeration order).
C3_FirstInPriorityOrder ==
    [][SelectStep =>
          /\ factor'.href \in DOMAIN r.factors
          /\ factor' = r.factors[factor'.href]
          /\ FirstAmong(r.factors, DOMAIN r.factors, factor'.href)]_vars

\* C3 amended: the factor pursued is the first supported one (push, sms or
\* token-prefixed) in priority order, unsupported types being passed over; and
\* {totp, push, sms} with a seed selects totp, without a seed push; {sms, push}
\* without a seed selects push; {sms} alone selects sms, in every enumeration
\* order.
C3_FirstSupportedInPriorityOrder ==
    [][SelectStep =>
          LET fs == r.factors
              S == {i \in DOMAIN fs : ClaimSupported(fs[i].factorType)}
              chosen == factor'.factorType
          IN  /\ factor'.href \in DOMAIN fs
              /\ factor' = fs[factor'.href]
              /\ FirstAmong(fs, S, factor'.href)
              /\ (TypesOf(fs) = {"token:software:totp", "push", "sms"} /\ totp_key # "None")
                    => chosen = "token:software:totp"
              /\ (TypesOf(fs) = {"token:software:totp", "push", "sms"} /\ totp_key = "None")
                    => chosen = "push"
              /\ (TypesOf(fs) = {"sms", "push"} /\ totp_key = "None") => chosen = "push"
              /\ TypesOf(fs) = {"sms"} => chosen = "sms"]_vars

\* C3 witness: with a seed, the software TOTP factor enumerated third was
\* taken up.
C3_Witness ==
    /\ pc = "arm"
    /\ totp_key = "seed"
    /\ factor = [factorType |-> "token:software:totp", href |-> 3]

C4_UserAlice == <<45, 45, 117, 115, 101, 114, 61, 97, 108, 105, 99, 101>>
C4_Cookie123 == <<99, 111, 111, 107, 105, 101, 49, 50, 51>>

\* C4: once the child is spawned, its argument vector holds --user=<the
\* saml-username header of the completion response>; the bytes main writes to
\* its standard input, and the bytes that reach it, are exactly the
\* prelogin-cookie header of that response; headers alice and cookie123 give
\* --user=alice and the payload cookie123.
C4_DataFlow ==
    child # "none" =>
        /\ HeaderNames \subseteq DOMAIN hdrs
        /\ Has(argv, S_user \o hdrs["saml-username"])
        /\ stdinBuf \in {<<>>, encode(hdrs["prelogin-cookie"])}
        /\ written \in {<<>>, encode(hdrs["prelogin-cookie"])}
        /\ pc = "close" => stdinBuf = encode(hdrs["prelogin-cookie"])
        /\ (stdinClosed /\ exc # "BrokenPipeError") => written = encode(hdrs["prelogin-cookie"])
        /\ hdrs["saml-username"] = S_alice => Has(argv, C4_UserAlice)
        /\ (hdrs["prelogin-cookie"] = S_cookie123 /\ written # <<>>) => written = C4_Cookie123

\* C4 witness: the spec's scenario: primary authentication SUCCESS (no verify
\* request), headers alice and cookie123, the cookie delivered.
C4_Witness ==
    /\ pc = "waitid"
    /\ VerifyCount = 0
    /\ Has(argv, C4_UserAlice)
    /\ written = C4_Cookie123

\* C5: whenever main has spawned the VPN client, the client has exited with
\* code c and main exits, main's exit code is c (stated for the runs in which
\* the cookie reached the client), whatever the interleaving of SIGTERMs.
C5_ExitCodePropagated ==
    (/\ exitKind = "exit"
     /\ child \in {"zombie", "reaped"}
     /\ childStatus \in ExitCodes
     /\ written = encode(prelogin_cookie))
        => exitCode = childStatus

\* C6, the count: when push was taken up and the identity provider answered
\* MFA_CHALLENGE/WAITING n times and then SUCCESS, n + 1 verify requests were
\* sent, the last event being the last of them.
C6_Count ==
    (pc = "auth_final" /\ factor.factorType = "push" /\ r.status = "SUCCESS") =>
        /\ VerifyCount = waits + 1
        /\ LastEvent = "verify"
        /\ inflight = 0

\* C6, the result: okta_auth then returns the sessionToken of that final
\* response and sends nothing more.
C6_Return ==
    [][(/\ pc = "auth_final" /\ factor.factorType = "push" /\ r.status = "SUCCESS"
        /\ pc' # pc /\ exitKind' = "running")
          => (token' = r.sessionToken /\ events' = events /\ pc' = "redirect")]_vars

\* C6: push poll count: n WAITING answers then SUCCESS give exactly n + 1
\* verify requests, no request after them, and the final sessionToken.
C6_PushPollCount == []C6_Count /\ C6_Return

\* C6 witness: the spec's case, two WAITING answers and then SUCCESS.
C6_Witness ==
    /\ pc = "auth_final"
    /\ factor.factorType = "push"
    /\ r.status = "SUCCESS"
    /\ waits = 2
    /\ VerifyCount = 3

NoSupportedFactor == "Exception: No supported authentication factors"
NoneSupported(fs) == \A i \in DOMAIN fs : ~ClaimSupported(fs[i].factorType)

\* okta_auth leaves the factor loop in this step.
LoopStep == pc = "mfa_select" /\ pc' # pc /\ exitKind' # "signal"

\* C7, failure: with no supported factor offered, okta_auth fails with the
\* no-supported-factor error and sends nothing.
C7_Fails ==
    [][(LoopStep /\ NoneSupported(r.factors))
          => (/\ exc' = NoSupportedFactor
              /\ pc' = "done" /\ exitKind' = "exit"
              /\ events' = events /\ inflight' = 0)]_vars

\* C7, tolerance: with a supported factor offered, unknown types beside it
\* cause no failure: a supported factor is taken up.
C7_Tolerates ==
    [][(LoopStep /\ ~NoneSupported(r.factors))
          => (/\ exc' = "none" /\ exitKind' = "running"
              /\ ClaimSupported(factor'.factorType))]_vars

\* C7, no later call: after the no-supported-factor error the primary
\* authentication stays the last request.
C7_NoCallAfter ==
    exc = NoSupportedFactor =>
        (pc = "done" /\ LastEvent = "authn" /\ inflight = 0 /\ NoneSupported(r.factors))

\* C7: MFA_REQUIRED with no supported factor (none at all, or unknown types
\* only) fails with the no-supported-factor error without a further network
\* call; an unknown type beside a supported one causes no failure.
C7_NoSupportedFactor == C7_Fails /\ C7_Tolerates /\ []C7_NoCallAfter

\* C7 witness: the failure on an MFA_REQUIRED response that enumerates no factor.
C7_Witness ==
    /\ exc = NoSupportedFactor
    /\ r.status = "MFA_REQUIRED"
    /\ r.factors = <<>>

\* C8, no child: unless the completion response carried both headers, no VPN
\* client is spawned and nothing is written for one.
C8_NoSpawn ==
    DOMAIN hdrs # HeaderNames =>
        /\ child = "none"
        /\ argv = <<>>
        /\ stdinBuf = <<>> /\ written = <<>>
        /\ ~Has(events, "spawn")

\* C8, failure: a completion response (of successful status) that lacks a
\* header makes complete_saml fail with KeyError, which ends main.
C8_Fails ==
    [][(/\ pc = "complete_recv" /\ pc' # pc
        /\ exitKind' # "signal" /\ exc' # "HTTPError"
        /\ DOMAIN hdrs' # HeaderNames)
          => (exc' = "KeyError" /\ pc' = "done" /\ exitKind' = "exit")]_vars

\* C8: a completion response without prelogin-cookie (or saml-username) fails
\* with a missing-key error; main never spawns the VPN client nor writes to a
\* child's stdin.
C8_MissingHeader == []C8_NoSpawn /\ C8_Fails

\* C8 witness: the failure on a response that has saml-username and lacks
\* prelogin-cookie.
C8_Witness ==
    /\ exc = "KeyError"
    /\ DOMAIN hdrs = {"saml-username"}

\* The stage of an event: the HTTP requests in the order of the claim, then
\* the spawn; 0 for a prompt, a secret lookup or a computed code.
Stage(e) ==
    CASE e = "prelogin" -> 1
      [] e = "saml_get" -> 2
      [] e = "authn" -> 3
      [] e = "verify" -> 4
      [] e = "redirect" -> 5
      [] e = "complete" -> 6
      [] e = "spawn" -> 7
      [] OTHER -> 0
IsStage(e) == Stage(e) > 0
Stages == SelectSeq(events, IsStage)

\* C9, the order: prelogin, SAML request GET, primary authentication, verify
\* requests (none or more), session-cookie redirect, completion, spawn.
C9_Order ==
    LET s == Stages IN
        /\ Len(s) > 0 => Stage(s[1]) = 1
        /\ \A i \in 1..(Len(s) - 1) :
              LET a == Stage(s[i])
                  b == Stage(s[i + 1])
              IN  b = a + 1 \/ (a = 4 /\ b = 4) \/ (a = 3 /\ b = 5)

\* C9, one at a time: at most one request awaits its response, and none once
\* the child is spawned.
C9_OneAtATime ==
    /\ inflight \in {0, 1}
    /\ inflight = 1 => Stage(LastEvent) \in 1..6
    /\ child # "none" => (inflight = 0 /\ Stage(Stages[Len(Stages)]) = 7)

\* C9, after success only: an event happens only when no response is awaited
\* and nothing has failed.
C9_AfterSuccess ==
    [][events' # events => (inflight = 0 /\ exc = "none" /\ exitKind = "running")]_vars

\* C9: the stages of main occur in their order, each after the previous one
\* returned successfully, never two requests at once, none after the spawn.
C9_StageOrder == []C9_Order /\ []C9_OneAtATime /\ C9_AfterSuccess

\* C9 witness: a complete run: the child is spawned after a login with two
\* verify requests.
C9_Witness ==
    /\ child = "running"
    /\ LastEvent = "spawn"
    /\ VerifyCount = 2

\* C10: a seed without a code generator: main exits with code 1 at its first
\* statement: no request, no prompt, no secret lookup, no child.
C10_EagerCheck ==
    (totp_key # "None" /\ ~pyotp) =>
        /\ pc \in {"start", "done"}
        /\ events = <<>>
        /\ inflight = 0
        /\ child = "none"
        /\ exitKind = "exit" => (exitCode = 1 /\ exc = "none")

\* C10 witness: main has exited with code 1 for a seed without pyotp.
C10_Witness ==
    /\ totp_key = "seed"
    /\ ~pyotp
    /\ exitKind = "exit"
    /\ exitCode = 1

\* The inputs below a form at any depth, in document order.
DescendantInputs(f) == SelectSeq(iter(f.children), IsInput)

\* A form with an action whose inputs all have a name and a value.
Complete(f) ==
    /\ "action" \in DOMAIN f.attrib
    /\ \A i \in DOMAIN DescendantInputs(f) :
          {"name", "value"} \subseteq DOMAIN DescendantInputs(f)[i].attrib

\* C11: for a document whose first form in document order is f, extract_form
\* returns the action of f and exactly the name -> value pairs of the inputs
\* below f at any depth, a later input's value replacing an earlier one's of
\* the same name.
C11_DescendantInputs ==
    pc = "extracted" =>
        \A f \in Forms :
            (Complete(f) /\ (html = <<f>> \/ html = <<Div(<<f>>), SecondForm>>))
                => form = Returned("none", f.attrib.action, dict(DescendantInputs(f)))

\* The failures of an HTTP exchange and of a missing field or element.
Failures == {"HTTPError", "AssertionError", "AttributeError", "KeyError", NoSupportedFactor}

Count(kind) == Len(SelectSeq(events, LAMBDA e : e = kind))

\* C12, missing field: a prelogin response whose form lacks SAMLRequest, and
\* a redirect response whose form lacks SAMLResponse, end the run.
C12_MissingField ==
    [][/\ (/\ pc = "prelogin_recv" /\ pc' # pc /\ exitKind' # "signal"
           /\ "SAMLRequest" \notin DOMAIN form'.data)
             => (pc' = "done" /\ exitKind' = "exit" /\ exc' \in Failures)
       /\ (/\ pc = "redirect_recv" /\ pc' # pc /\ exitKind' # "signal"
           /\ "SAMLResponse" \notin DOMAIN form'.data)
             => (pc' = "done" /\ exitKind' = "exit" /\ exc' \in Failures)]_vars

\* C12, fatal: once an exchange has failed the run is over: no request is
\* sent, nothing is awaited, no VPN client exists or is spawned.
C12_Fatal ==
    exc \in Failures =>
        /\ pc = "done" /\ exitKind = "exit" /\ exitCode = 1
        /\ inflight = 0
        /\ child = "none" /\ ~Has(events, "spawn")

\* C12, no retry: no event follows a failure; every request other than a
\* verify request is sent at most once; and a verify request that repeats the
\* one before it (same link, same purpose) is a push poll that follows a
\* WAITING answer.
C12_NoResend ==
    /\ [][(exc \in Failures) => (events' = events)]_vars
    /\ [](\A k \in {"prelogin", "saml_get", "authn", "redirect", "complete", "spawn"} :
             Count(k) <= 1)
    /\ [][(/\ events' # events /\ events'[Len(events')] = "verify" /\ VerifyCount >= 1
            /\ req'.url = req.url /\ (req'.passCode = "") = (req.passCode = ""))
              => (/\ factor.factorType = "push"
                  /\ r.status = "MFA_CHALLENGE" /\ r.factorResult = "WAITING")]_vars

VerifyStep == events' # events /\ events'[Len(events')] = "verify"

\* C13, one factor: every verify request goes to the verify link of the
\* factor taken up, which is the link of the verify request before it.
C13_OneFactor ==
    [][VerifyStep =>
          /\ factor # NoFactor /\ factor' = factor
          /\ req'.url = factor.href
          /\ VerifyCount >= 1 => req'.url = req.url]_vars

\* C13, no other factor: the factor taken up is left only when okta_auth
\* returns after SUCCESS.
C13_FactorKept ==
    [][(factor # NoFactor /\ factor' # factor)
          => (pc = "auth_final" /\ r.status = "SUCCESS" /\ factor' = NoFactor)]_vars

\* C13, no fallback: a final response of a status other than SUCCESS makes
\* okta_auth fail: no token, no further request.
C13_NoFallback ==
    [][(pc = "auth_final" /\ r.status # "SUCCESS" /\ pc' # pc /\ exitKind' # "signal")
          => (/\ exc' = "AssertionError" /\ pc' = "done" /\ exitKind' = "exit"
              /\ token' = "" /\ events' = events)]_vars

\* C13: single factor, no fallback: all verify requests of a login go to
\* the verify link of one factor, and a final status other than SUCCESS is a
\* failure of okta_auth, which tries no other factor and returns no token.
C13_SingleFactor == C13_OneFactor /\ C13_FactorKept /\ C13_NoFallback

\* C13 witness: of three factors offered, sms was pursued with two verify
\* requests and ended in LOCKED_OUT: okta_auth failed there.
C13_Witness ==
    /\ exc = "AssertionError"
    /\ factor = [factorType |-> "sms", href |-> 2]
    /\ r.status = "LOCKED_OUT"
    /\ VerifyCount = 2
    /\ LastEvent = "verify"
    /\ token = ""

\* The push poll was answered MFA_CHALLENGE with a factorResult other than
\* WAITING.
PushViolation ==
    /\ factor.factorType = "push"
    /\ r.status = "MFA_CHALLENGE"
    /\ r.factorResult # "WAITING"

\* C14, failure: such an answer to a push poll makes okta_auth fail with an
\* AssertionError in the step that reads it.
C14_Fails ==
    [][(pc = "push_recv" /\ pc' # pc /\ exitKind' # "signal" /\ PushViolation')
          => (exc' = "AssertionError" /\ pc' = "done" /\ exitKind' = "exit")]_vars

\* C14, nothing after: once it was given, no verify poll and no other request
\* follows.
C14_NothingAfter ==
    /\ [](PushViolation =>
             (LastEvent = "verify" /\ inflight = 0 /\ token = "" /\ child = "none"))
    /\ [][PushViolation => (events' = events)]_vars

\* C14: push protocol violation: MFA_CHALLENGE with a factorResult other
\* than WAITING (REJECTED, TIMEOUT) fails okta_auth at once with an assertion
\* failure; no verify poll and no other request follows.
C14_PushProtocolViolation == C14_Fails /\ C14_NothingAfter

\* C14 witness: after one WAITING answer the second poll was answered
\* REJECTED and okta_auth failed.
C14_Witness ==
    /\ exc = "AssertionError"
    /\ PushViolation
    /\ r.factorResult = "REJECTED"
    /\ waits = 1
    /\ VerifyCount = 2

\* okta_auth is in its push poll loop.
Polling == pc \in {"push", "push_recv"}

\* C15, no cap: whatever the number of WAITING answers so far, one more
\* WAITING answer is followed by one more poll.
C15_KeepsPolling ==
    /\ [][waits' = waits + 1 => (pc = "push_recv" /\ pc' = "push" /\ exitKind' = "running")]_vars
    /\ [][(pc = "push" /\ pc' # pc /\ exitKind' = "running")
             => (pc' = "push_recv" /\ VerifyStep /\ req'.url = factor.href)]_vars

\* C15, termination: the identity provider answering WAITING a bounded
\* number of times, the poll loop is left and okta_auth ends: it returns a
\* session token (the redirect is next) or the run is over.
C15_Terminates ==
    Polling ~> ((pc = "redirect" /\ token \in SessionTokens) \/ exitKind # "running")

\* C15: push poll termination: the loop has no cap or timeout of its own and
\* polls as long as the answers are MFA_CHALLENGE/WAITING; when the identity
\* provider eventually answers otherwise, okta_auth terminates, returning a
\* session token or failing.
C15_PushPollTermination == C15_KeepsPolling /\ C15_Terminates

\* C15 witness: okta_auth polls again after as many WAITING answers as the
\* identity provider gives.
C15_Witness ==
    /\ pc = "push"
    /\ waits = MaxPolls
    /\ VerifyCount = MaxPolls

\* The factor taken up is sms or token-prefixed.
CodeFactor == factor # NoFactor /\ factor.factorType # "push"

\* The events since the primary authentication.
SinceAuthn ==
    LET i == CHOOSE j \in DOMAIN events : events[j] = "authn" IN
        SubSeq(events, i + 1, Len(events))

\* How the claim has the code obtained: computed for software TOTP with a
\* seed, asked for otherwise.
C16_CodeEvent ==
    IF factor.factorType = "token:software:totp" /\ totp_key # "None"
    THEN "totp" ELSE "prompt:code"

IsPrefix(s, t) == Len(s) <= Len(t) /\ s = SubSeq(t, 1, Len(s))

\* C16, the sequence: an arming verify request without passCode, the code,
\* a verify request with that code as passCode, and no more; both requests
\* made when okta_auth comes to its final assert.
C16_Sequence ==
    CodeFactor =>
        /\ IsPrefix(SinceAuthn, <<"verify", C16_CodeEvent, "verify">>)
        /\ VerifyCount <= 1 => req.passCode = ""
        /\ VerifyCount = 2 => (req.passCode = code /\ code # "")
        /\ code # "" <=> Len(SinceAuthn) >= 2
        /\ pc = "auth_final" => Len(SinceAuthn) = 3

\* C16, the failure: an arming response of a status other than MFA_CHALLENGE
\* makes okta_auth fail in the step that reads it: no code, no second request.
C16_ArmFails ==
    [][(/\ pc = "arm_recv" /\ pc' # pc /\ exitKind' # "signal" /\ exc' # "HTTPError"
        /\ r'.status # "MFA_CHALLENGE")
          => (/\ exc' = "AssertionError" /\ pc' = "done" /\ exitKind' = "exit"
              /\ code' = "" /\ events' = events /\ VerifyCount = 1)]_vars

\* C16: sms and token factors: exactly two verify requests, the first
\* without passCode, the second with it, the code (prompt, or TOTP computation
\* for software TOTP with a seed) obtained strictly between them; an arming
\* response that is not MFA_CHALLENGE fails before any code and any second
\* request.
C16_CodeFactorSequence == []C16_Sequence /\ C16_ArmFails

\* C16 witness: software TOTP with a seed: arming request, computed code,
\* request with the code, at the final assert.
C16_Witness ==
    /\ pc = "auth_final"
    /\ factor.factorType = "token:software:totp"
    /\ totp_key = "seed"
    /\ SinceAuthn = <<"verify", "totp", "verify">>
    /\ req.passCode = "computed"

\* The string s holds t as a substring.
Contains(s, t) == \E i \in 0..(Len(s) - Len(t)) : SubSeq(s, i + 1, i + Len(t)) = t

\* C17, not an argument: no argument of the child holds the prelogin cookie.
C17_NotInArgv ==
    child # "none" =>
        /\ argv = subprocess_args
        /\ \A i \in DOMAIN argv : ~Contains(argv[i], prelogin_cookie)

\* C17, one write: bytes are handed to the child's stdin in one step only,
\* the body of main's with, before which none were, and they are the UTF-8
\* bytes of the cookie and nothing else; the child receives these or (gone
\* before the flush) nothing.
C17_OneWrite ==
    /\ [][stdinBuf' # stdinBuf =>
             \/ (/\ pc = "body" /\ stdinBuf = <<>> /\ written = <<>> /\ ~stdinClosed
                 /\ stdinBuf' = encode(prelogin_cookie))
             \/ (pc = "close" /\ stdinBuf' = <<>> /\ stdinClosed')]_vars
    /\ [](written \in {<<>>, encode(prelogin_cookie)})
    /\ [][written' # written => (pc = "close" /\ written = <<>> /\ stdinClosed')]_vars

\* C17, closed before the wait: where the parent waits for the child's exit
\* (os.waitid, and the wait of Popen.__exit__) the child's stdin is closed
\* and nothing is left in its buffer.
C17_ClosedBeforeWait ==
    /\ [](pc = "waitid" => (stdinClosed /\ stdinBuf = <<>> /\ written = encode(prelogin_cookie)))
    /\ [][(pc = "popen_exit" /\ pc' # pc /\ exitKind' = "running") => stdinClosed']_vars

\* C17: secret handoff: the prelogin cookie is never in the child's argument
\* vector; it is delivered by one write of its raw bytes, without newline or
\* framing, to the child's stdin, which is closed before the parent waits for
\* the child's exit.
C17_SecretHandoff == []C17_NotInArgv /\ C17_OneWrite /\ C17_ClosedBeforeWait

\* C17 witness: the parent waits for the running child, whose stdin is
\* closed, after the cookie "cle'" reached it as its four UTF-8 bytes.
C17_Witness ==
    /\ pc = "waitid"
    /\ child = "running"
    /\ stdinClosed
    /\ prelogin_cookie = S_cle
    /\ written = <<99, 108, 195, 169>>

\* C18, at the spawn: the child is spawned while SIGTERM is blocked in the
\* parent, and starts the VPN client with the mask the parent had before it
\* blocked SIGTERM, in which SIGTERM is not blocked.
C18_AtSpawn ==
    [][(child = "none" /\ child' # "none")
          => (/\ mask /\ mask'
              /\ childMask' = old_mask
              /\ ~childMask'
              /\ child' = "running" /\ pc' = "install")]_vars

\* C18, kept: the child's mask stays the parent's pre-block mask; SIGTERM
\* is never blocked in the child.
C18_Kept == child # "none" => (childMask = old_mask /\ ~childMask)

\* C18: child signal mask: the child begins the VPN client with the
\* parent's pre-block mask (SIGTERM not blocked, as it was not on entry),
\* while the parent still has SIGTERM blocked at the moment of the spawn.
C18_ChildSignalMask == C18_AtSpawn /\ []C18_Kept

\* C18 witness: right after the spawn: SIGTERM blocked in the parent, not
\* blocked in the running child, a SIGTERM for the parent pending meanwhile.
C18_Witness ==
    /\ pc = "install"
    /\ child = "running"
    /\ mask /\ ~old_mask
    /\ ~childMask
    /\ pending

\* C19, threading: a verify request carries the stateToken of the response
\* read last: the primary response (MFA_REQUIRED) for the first verify
\* request, the answer to the verify request before it (MFA_CHALLENGE) for
\* each later one.
C19_Threaded ==
    [][VerifyStep =>
          /\ req'.stateToken = r.stateToken
          /\ r.stateToken \in StateTokens
          /\ r.status = (IF VerifyCount = 0 THEN "MFA_REQUIRED" ELSE "MFA_CHALLENGE")
          /\ r' = r]_vars

\* C19, not touched: the token read last changes only when a response is
\* read, and the token of a request is not changed once the request is sent.
C19_Untouched ==
    [][/\ r'.stateToken # r.stateToken => (inflight' = inflight - 1 \/ pc = "auth_final")
       /\ req' # req => (VerifyStep \/ pc = "auth_final")]_vars

\* C19: state token threading: every verify request carries the stateToken
\* of the most recent identity-provider response; the client never invents,
\* reuses an older, or modifies a state token.
C19_StateTokenThreading == C19_Threaded /\ C19_Untouched

\* C19 witness: the third push poll carries token 2, the token of the answer
\* to the second.
C19_Witness ==
    /\ pc = "push_recv"
    /\ VerifyCount = 3
    /\ r.status = "MFA_CHALLENGE"
    /\ r.stateToken = 2
    /\ req.stateToken = 2

\* C20: reaping versus forwarding: the wait inside the supervised region
\* (os.waitid) observes the child's exit and leaves the child unreaped; the
\* child is reaped only once SIGTERM is blocked again and the forwarding
\* handler is removed; the handler never sends a terminate request to a
\* child that has been reaped.
C20_ReapedAfterRegion ==
    /\ [][(pc = "waitid" /\ pc' # pc /\ exitKind' = "running") => child' = child]_vars
    /\ [][(child # "reaped" /\ child' = "reaped") => (mask /\ handler = "default")]_vars
    /\ [][childTerms' # childTerms => child = "running"]_vars
====
